---- MODULE Spec2Model ----
(***************************************************************************)
(* Request lifecycle of the packing-list chat (component App): the text    *)
(* input, the submit handler, the asynchronous generatePackingList and     *)
(* the clean-up and JSON parsing of the service's response.                *)
(*                                                                         *)
(* A text is a sequence of tokens.  A token is one character (a backtick,  *)
(* a newline, a blank, a bracket ...) or one indivisible lexeme that the   *)
(* code never splits (the word json, a JSON literal, a quoted string).     *)
(***************************************************************************)
EXTENDS Naturals, Sequences, FiniteSets, TLC

VARIABLES
    API_KEY,      \* TRUE iff import.meta.env.VITE_GEMINI_API_KEY is truthy
    messages,     \* useState<Message[]>: the transcript
    input,        \* useState(''): the text of the input field
    isLoading,    \* useState(false): the pending flag
    packingList,  \* useState<PackingList | null>: the stored JS value
    apiKeyError,  \* useState(!API_KEY): the configuration gate
    inflight,     \* invocations of generatePackingList suspended at the await
    calls,        \* number of model.generateContent calls issued so far
    accepted,     \* history: submit events that got past the early return
    resolved,     \* history: invocations of generatePackingList that ended
    crashed,      \* a render threw and React unmounted the component tree
    event,        \* history: the last event handled
    gateSetBy     \* history: what last set apiKeyError ("none" once cleared)

vars == <<API_KEY, messages, input, isLoading, packingList, apiKeyError,
          inflight, calls, accepted, resolved, crashed, event, gateSetBy>>

----------------------------------------------------------------------------
(* Bounds of the model *)

MaxSubmissions == 2
MaxTextLen == 3

----------------------------------------------------------------------------
(* Texts *)

\* the backtick character
TICK == "BACKTICK"
NL == "\n"
SP == " "

WhiteSpace == {SP, NL}

Drop(s, n) == IF n >= Len(s) THEN <<>> ELSE SubSeq(s, n + 1, Len(s))

RECURSIVE TrimStart(_)
TrimStart(s) ==
    IF s # <<>> /\ s[1] \in WhiteSpace THEN TrimStart(Tail(s)) ELSE s

RECURSIVE TrimEnd(_)
TrimEnd(s) ==
    IF s # <<>> /\ s[Len(s)] \in WhiteSpace
    THEN TrimEnd(SubSeq(s, 1, Len(s) - 1))
    ELSE s

\* String.prototype.trim
Trim(s) == TrimEnd(TrimStart(s))

\* three backticks at position i of s
Ticks(s, i) ==
    /\ i + 2 <= Len(s)
    /\ s[i] = TICK /\ s[i + 1] = TICK /\ s[i + 2] = TICK

\* first alternative of the pattern (three backticks, json, an optional
\* newline) matched at the head of s:
\* the number of tokens it consumes (0: no match)
MatchOpen(s) ==
    IF Ticks(s, 1) /\ Len(s) >= 4 /\ s[4] = "json"
    THEN IF Len(s) >= 5 /\ s[5] = NL THEN 5 ELSE 4
    ELSE 0

\* second alternative (an optional newline, three backticks) matched at the
\* head of s
MatchClose(s) ==
    IF s # <<>> /\ s[1] = NL /\ Ticks(s, 2) THEN 4
    ELSE IF Ticks(s, 1) THEN 3
    ELSE 0

\* mutant: nothing is removed from the response
ReplaceFences_None(s) == s

\* text.replace(<pattern>/g, ''): every occurrence, leftmost match, the first
\* alternative tried first
RECURSIVE ReplaceFences(_)
ReplaceFences(s) ==
    IF s = <<>> THEN <<>>
    ELSE IF MatchOpen(s) > 0 THEN ReplaceFences(Drop(s, MatchOpen(s)))
    ELSE IF MatchClose(s) > 0 THEN ReplaceFences(Drop(s, MatchClose(s)))
    ELSE <<s[1]>> \o ReplaceFences(Tail(s))

\* "Clean the response text"
CleanText(s) == Trim(ReplaceFences(s))

----------------------------------------------------------------------------
(* JavaScript values and JSON.parse *)

\* A JS value produced by JSON.parse: t is its type, s the characters of a
\* string, k the property names of an object in insertion order, c the
\* elements of an array or the property values of an object.
JSNull == [t |-> "null", s |-> "", k |-> <<>>, c |-> <<>>]
JSStr(x) == [t |-> "string", s |-> x, k |-> <<>>, c |-> <<>>]
JSArr(elems) == [t |-> "array", s |-> "", k |-> <<>>, c |-> elems]
JSObj(keys, vals) == [t |-> "object", s |-> "", k |-> keys, c |-> vals]

\* the quoted string lexemes of the texts, and the string each denotes
Unquote ==
    ("\"categories\"" :> "categories") @@ ("\"name\"" :> "name") @@
    ("\"items\"" :> "items") @@ ("\"Clothing\"" :> "Clothing") @@
    ("\"Toiletries\"" :> "Toiletries") @@ ("\"Shirt\"" :> "Shirt") @@
    ("\"Pants\"" :> "Pants") @@ ("\"Soap\"" :> "Soap")

StrLits == DOMAIN Unquote

ParseFail == [ok |-> FALSE, v |-> JSNull, n |-> 0]
ParseOk(val, next) == [ok |-> TRUE, v |-> val, n |-> next]

\* index of the first token of s at or after i that is not white space
RECURSIVE SkipWs(_, _)
SkipWs(s, i) ==
    IF i <= Len(s) /\ s[i] \in WhiteSpace THEN SkipWs(s, i + 1) ELSE i

\* obj[key] = val on an object under construction: a repeated name keeps its
\* place and takes the later value
PutMember(keys, vals, key, val) ==
    IF \E i \in 1..Len(keys) : keys[i] = key
    THEN [keys |-> keys,
          vals |-> [i \in 1..Len(vals) |-> IF keys[i] = key THEN val ELSE vals[i]]]
    ELSE [keys |-> Append(keys, key), vals |-> Append(vals, val)]

RECURSIVE ParseValue(_, _)
RECURSIVE ParseElements(_, _, _)
RECURSIVE ParseMembers(_, _, _, _)

\* mutant: each element is put in front of the ones read before it
ParseElements_Reversed(s, i, acc) ==
    LET r == ParseValue(s, i)
        j == SkipWs(s, r.n)
    IN  IF ~r.ok \/ j > Len(s) THEN ParseFail
        ELSE IF s[j] = "," THEN ParseElements(s, j + 1, <<r.v>> \o acc)
        ELSE IF s[j] = "]" THEN ParseOk(JSArr(<<r.v>> \o acc), j + 1)
        ELSE ParseFail

\* the elements of an array from token i on, up to the closing bracket
ParseElements(s, i, acc) ==
    LET r == ParseValue(s, i)
        j == SkipWs(s, r.n)
    IN  IF ~r.ok \/ j > Len(s) THEN ParseFail
        ELSE IF s[j] = "," THEN ParseElements(s, j + 1, Append(acc, r.v))
        ELSE IF s[j] = "]" THEN ParseOk(JSArr(Append(acc, r.v)), j + 1)
        ELSE ParseFail

\* the members of an object from token i on, up to the closing brace
ParseMembers(s, i, keys, vals) ==
    LET j == SkipWs(s, i)
        c == SkipWs(s, j + 1)
        r == ParseValue(s, c + 1)
        e == SkipWs(s, r.n)
        m == PutMember(keys, vals, Unquote[s[j]], r.v)
    IN  IF j > Len(s) \/ s[j] \notin StrLits THEN ParseFail
        ELSE IF c > Len(s) \/ s[c] # ":" THEN ParseFail
        ELSE IF ~r.ok \/ e > Len(s) THEN ParseFail
        ELSE IF s[e] = "," THEN ParseMembers(s, e + 1, m.keys, m.vals)
        ELSE IF s[e] = "}" THEN ParseOk(JSObj(m.keys, m.vals), e + 1)
        ELSE ParseFail

\* one JSON value from token i on
ParseValue(s, i) ==
    LET j == SkipWs(s, i)
        n == SkipWs(s, j + 1)
    IN  IF j > Len(s) THEN ParseFail
        ELSE IF s[j] = "null" THEN ParseOk(JSNull, j + 1)
        ELSE IF s[j] \in StrLits THEN ParseOk(JSStr(Unquote[s[j]]), j + 1)
        ELSE IF s[j] = "["
             THEN IF n <= Len(s) /\ s[n] = "]"
                  THEN ParseOk(JSArr(<<>>), n + 1)
                  ELSE ParseElements(s, j + 1, <<>>)
        ELSE IF s[j] = "{"
             THEN IF n <= Len(s) /\ s[n] = "}"
                  THEN ParseOk(JSObj(<<>>, <<>>), n + 1)
                  ELSE ParseMembers(s, j + 1, <<>>, <<>>)
        ELSE ParseFail

\* JSON.parse(text): ok is FALSE where it throws a SyntaxError
JSONparse(s) ==
    LET r == ParseValue(s, 1)
    IN  IF r.ok /\ SkipWs(s, r.n) > Len(s) THEN r ELSE ParseFail

----------------------------------------------------------------------------
(* Rendering the stored list *)

JSUndefined == [t |-> "undefined", s |-> "", k |-> <<>>, c |-> <<>>]

\* the value is truthy
Truthy(v) == ~(v.t \in {"null", "undefined"} \/ (v.t = "string" /\ v.s = ""))

\* v[key] for a value v that is neither null nor undefined
Prop(v, key) ==
    IF v.t = "object" /\ \E i \in 1..Len(v.k) : v.k[i] = key
    THEN v.c[CHOOSE i \in 1..Len(v.k) : v.k[i] = key]
    ELSE JSUndefined

\* React renders v as a child: anything but a plain object, inside arrays too
RECURSIVE ValidChild(_)
ValidChild(v) ==
    /\ v.t # "object"
    /\ v.t = "array" => \A i \in 1..Len(v.c) : ValidChild(v.c[i])

\* rendering one element of list.categories throws
CategoryThrows(cat) ==
    \/ cat.t \in {"null", "undefined"}
    \/ ~ValidChild(Prop(cat, "name"))
    \/ Prop(cat, "items").t # "array"
    \/ \E i \in 1..Len(Prop(cat, "items").c) :
          ~ValidChild(Prop(cat, "items").c[i])

\* {packingList && <PackingListDisplay list={packingList} />} throws
RenderThrows(list) ==
    /\ Truthy(list)
    /\ \/ Prop(list, "categories").t # "array"
       \/ \E i \in 1..Len(Prop(list, "categories").c) :
             CategoryThrows(Prop(list, "categories").c[i])

----------------------------------------------------------------------------
(* Inputs of the model *)

\* texts typed into the input field
InputTexts == {<<>>, <<SP>>, <<NL, SP>>, <<"trip">>, <<SP, "trip", SP>>}

\* the response wrapped in a json code fence
Fence(p) == <<TICK, TICK, TICK, "json", NL>> \o p \o <<NL, TICK, TICK, TICK>>

L1Text ==
    <<"{", "\"categories\"", ":", "[",
        "{", "\"name\"", ":", "\"Clothing\"", ",",
             "\"items\"", ":", "[", "\"Shirt\"", ",", "\"Pants\"", "]", "}",
      "]", "}">>

L2Text ==
    <<"{", NL, SP, "\"categories\"", ":", SP, "[", NL,
        "{", "\"name\"", ":", "\"Toiletries\"", ",",
             "\"items\"", ":", "[", "\"Soap\"", "]", "}", ",", NL,
        "{", "\"name\"", ":", "\"Clothing\"", ",", SP,
             "\"items\"", ":", "[", "\"Pants\"", ",", "\"Shirt\"", "]", "}", NL,
      "]", NL, "}", NL>>

ProseText == <<"Sure", SP, "thing">> \o Fence(L1Text)

\* texts the service returns
ResponseTexts ==
    {L1Text, Fence(L2Text), ProseText, <<"null">>, <<"{", "}">>}

Markers == {"API_KEY_INVALID", "RATE_LIMIT_EXCEEDED"}

\* values thrown by generateContent or response.text(): an Error whose
\* message includes the given markers, or a value that is no Error
ThrownValues ==
    {[isError |-> TRUE, includes |-> m] : m \in SUBSET Markers}
        \cup {[isError |-> FALSE, includes |-> {}]}

NoThrow == [isError |-> FALSE, includes |-> {}]

----------------------------------------------------------------------------
(* The component *)

MSG_NO_KEY ==
    <<"Error: Gemini API key is not configured. Please add your API key to the .env file.">>
MSG_SUCCESS ==
    <<"I've generated a packing list based on your trip details. You can find it below!">>
MSG_INVALID_FORMAT ==
    <<"Sorry, I received an invalid response format. Please try again.">>
MSG_INVALID_KEY ==
    <<"Error: Invalid API key. Please check your Gemini API key configuration.">>
MSG_RATE_LIMIT ==
    <<"Rate limit exceeded. Please try again in a few moments.">>
MSG_GENERIC ==
    <<"I'm sorry, I encountered an error while generating your packing list. Please try again.">>
MSG_UNEXPECTED ==
    <<"An unexpected error occurred">>

User(content) == [role |-> "user", content |-> content]
Assistant(content) == [role |-> "assistant", content |-> content]

\* mutant: the earlier messages are not kept
AppendPair_Replace(prev, content, reply) ==
    <<User(content), Assistant(reply)>>

\* mutant: the reply is put before the user message
AppendPair_ReplyFirst(prev, content, reply) ==
    prev \o <<Assistant(reply), User(content)>>

\* setMessages(prev => [...prev, user, assistant])
AppendPair(prev, content, reply) ==
    prev \o <<User(content), Assistant(reply)>>

Ev(kind, outcome, in, resp, err) ==
    [kind |-> kind, outcome |-> outcome, input |-> in, response |-> resp,
     error |-> err]

Init ==
    /\ API_KEY \in BOOLEAN
    /\ messages = <<>>
    /\ input = <<>>
    /\ isLoading = FALSE
    /\ packingList = JSNull
    /\ apiKeyError = ~API_KEY
    /\ inflight = <<>>
    /\ calls = 0
    /\ accepted = 0
    /\ resolved = 0
    /\ crashed = FALSE
    /\ event = Ev("none", "none", <<>>, <<>>, NoThrow)
    /\ gateSetBy = IF API_KEY THEN "none" ELSE "missingKey"

\* onChange={(e) => setInput(e.target.value)}
onChange(v) ==
    /\ ~crashed
    /\ input' = v
    /\ event' = Ev("change", "typed", v, <<>>, NoThrow)
    /\ UNCHANGED <<API_KEY, crashed, messages, isLoading, packingList,
                   apiKeyError, inflight, calls, accepted, resolved,
                   gateSetBy>>

\* mutant: the pending flag is not looked at
SubmitRejected_IgnoresLoading == Trim(input) = <<>>

\* mutant: the input is not trimmed
SubmitRejected_NoTrim == input = <<>> \/ isLoading

\* the early return of handleSubmit
SubmitRejected == Trim(input) = <<>> \/ isLoading

\* room for one more submission within the bound of the model
WithinBound == Len(messages) + 2 * Len(inflight) < 2 * MaxSubmissions

\* mutant: the user message is left out
NoKeyPath_NoEcho ==
    /\ apiKeyError' = TRUE
    /\ gateSetBy' = "missingKey"
    /\ messages' = Append(messages, Assistant(MSG_NO_KEY))
    /\ input' = <<>>
    /\ accepted' = accepted + 1
    /\ resolved' = resolved + 1
    /\ event' = Ev("submit", "noKey", input, <<>>, NoThrow)
    /\ UNCHANGED <<API_KEY, crashed, isLoading, packingList, inflight, calls>>

\* generatePackingList without a credential: the synchronous path
NoKeyPath ==
    /\ apiKeyError' = TRUE
    /\ gateSetBy' = "missingKey"
    /\ messages' = AppendPair(messages, input, MSG_NO_KEY)
    /\ input' = <<>>
    /\ accepted' = accepted + 1
    /\ resolved' = resolved + 1
    /\ event' = Ev("submit", "noKey", input, <<>>, NoThrow)
    /\ UNCHANGED <<API_KEY, crashed, isLoading, packingList, inflight, calls>>

\* mutant: the gate is not reset before the call
CallPath_KeepsGate ==
    /\ isLoading' = TRUE
    /\ UNCHANGED <<apiKeyError, gateSetBy>>
    /\ inflight' = Append(inflight, input)
    /\ calls' = calls + 1
    /\ accepted' = accepted + 1
    /\ event' = Ev("submit", "issued", input, <<>>, NoThrow)
    /\ UNCHANGED <<API_KEY, crashed, messages, input, packingList, resolved>>

\* mutant: the request is sent twice
CallPath_CallsTwice ==
    /\ isLoading' = TRUE
    /\ apiKeyError' = FALSE
    /\ gateSetBy' = "none"
    /\ inflight' = Append(inflight, input)
    /\ calls' = calls + 2
    /\ accepted' = accepted + 1
    /\ event' = Ev("submit", "issued", input, <<>>, NoThrow)
    /\ UNCHANGED <<API_KEY, crashed, messages, input, packingList, resolved>>

\* generatePackingList with a credential, up to the await of generateContent:
\* the invocation keeps the input of the render it was created in
CallPath ==
    /\ isLoading' = TRUE
    /\ apiKeyError' = FALSE
    /\ gateSetBy' = "none"
    /\ inflight' = Append(inflight, input)
    /\ calls' = calls + 1
    /\ accepted' = accepted + 1
    /\ event' = Ev("submit", "issued", input, <<>>, NoThrow)
    /\ UNCHANGED <<API_KEY, crashed, messages, input, packingList, resolved>>

\* mutant: a set gate sends the submission down the path of the missing
\* credential
handleSubmit_Gated ==
    /\ ~crashed
    /\ IF SubmitRejected
       THEN /\ event' = Ev("submit", "ignored", input, <<>>, NoThrow)
            /\ UNCHANGED <<API_KEY, crashed, messages, input, isLoading,
                           packingList, apiKeyError, inflight, calls,
                           accepted, resolved, gateSetBy>>
       ELSE /\ WithinBound
            /\ IF ~API_KEY \/ apiKeyError THEN NoKeyPath ELSE CallPath

\* mutant: the credential is not looked at
handleSubmit_AlwaysCalls ==
    /\ ~crashed
    /\ IF SubmitRejected
       THEN /\ event' = Ev("submit", "ignored", input, <<>>, NoThrow)
            /\ UNCHANGED <<API_KEY, crashed, messages, input, isLoading,
                           packingList, apiKeyError, inflight, calls,
                           accepted, resolved, gateSetBy>>
       ELSE /\ WithinBound
            /\ CallPath

\* the form's onSubmit
handleSubmit ==
    /\ ~crashed
    /\ IF SubmitRejected
       THEN /\ event' = Ev("submit", "ignored", input, <<>>, NoThrow)
            /\ UNCHANGED <<API_KEY, crashed, messages, input, isLoading,
                           packingList, apiKeyError, inflight, calls,
                           accepted, resolved, gateSetBy>>
       ELSE /\ WithinBound
            /\ IF ~API_KEY THEN NoKeyPath ELSE CallPath

Remove(q, i) == SubSeq(q, 1, i - 1) \o SubSeq(q, i + 1, Len(q))

\* mutant: a text that does not parse clears the stored list
ParseFailed_ClearsList(own, r) ==
    /\ packingList' = JSNull
    /\ messages' = AppendPair(messages, own, MSG_INVALID_FORMAT)
    /\ UNCHANGED <<apiKeyError, gateSetBy>>

\* mutant: no inner try, the SyntaxError reaches the outer catch block
ParseFailed_OuterCatch(own, r) ==
    /\ packingList' = packingList
    /\ messages' = AppendPair(messages, own, MSG_GENERIC)
    /\ apiKeyError' = TRUE
    /\ gateSetBy' = "other"

\* the inner catch block: JSON.parse threw
ParseFailed(own, r) ==
    /\ packingList' = packingList
    /\ messages' = AppendPair(messages, own, MSG_INVALID_FORMAT)
    /\ UNCHANGED <<apiKeyError, gateSetBy>>

\* the inner try block after JSON.parse returned val
Parsed(own, val) ==
    /\ packingList' = val
    /\ messages' = AppendPair(messages, own, MSG_SUCCESS)
    /\ UNCHANGED <<apiKeyError, gateSetBy>>

\* the call of invocation i returns the text r: clean, parse, store, report,
\* clear the input, then finally
Fulfil(i, r) ==
    LET own == inflight[i]
        parsed == JSONparse(CleanText(r))
    IN  /\ ~crashed
        /\ IF parsed.ok THEN Parsed(own, parsed.v) ELSE ParseFailed(own, r)
        /\ input' = <<>>
        /\ isLoading' = FALSE
        /\ inflight' = Remove(inflight, i)
        /\ crashed' = (parsed.ok /\ RenderThrows(parsed.v))
        /\ resolved' = resolved + 1
        /\ event' = Ev("settle", "returned", own, r, NoThrow)
        /\ UNCHANGED <<API_KEY, calls, accepted>>

\* mutant: the rate limit is looked for before the invalid key
ErrorMessage_RateFirst(e) ==
    IF e.isError
    THEN IF "RATE_LIMIT_EXCEEDED" \in e.includes THEN MSG_RATE_LIMIT
         ELSE IF "API_KEY_INVALID" \in e.includes THEN MSG_INVALID_KEY
         ELSE MSG_GENERIC
    ELSE MSG_UNEXPECTED

\* the message chosen in the catch block
ErrorMessage(e) ==
    IF e.isError
    THEN IF "API_KEY_INVALID" \in e.includes THEN MSG_INVALID_KEY
         ELSE IF "RATE_LIMIT_EXCEEDED" \in e.includes THEN MSG_RATE_LIMIT
         ELSE MSG_GENERIC
    ELSE MSG_UNEXPECTED

\* the class of a thrown value, as the catch block tells them apart
ErrorClass(e) ==
    IF ~e.isError THEN "nonError"
    ELSE IF "API_KEY_INVALID" \in e.includes THEN "auth"
    ELSE IF "RATE_LIMIT_EXCEEDED" \in e.includes THEN "rateLimit"
    ELSE "other"

\* mutant: the input is not cleared
Caught_KeepsInput(own, e) ==
    /\ messages' = AppendPair(messages, own, ErrorMessage(e))
    /\ apiKeyError' = TRUE
    /\ gateSetBy' = ErrorClass(e)
    /\ input' = input

\* mutant: only an invalid credential sets the gate
Caught_GateOnAuthOnly(own, e) ==
    /\ messages' = AppendPair(messages, own, ErrorMessage(e))
    /\ apiKeyError' = (ErrorClass(e) = "auth")
    /\ gateSetBy' = IF ErrorClass(e) = "auth" THEN "auth" ELSE "none"
    /\ input' = <<>>

\* the outer catch block
Caught(own, e) ==
    /\ messages' = AppendPair(messages, own, ErrorMessage(e))
    /\ apiKeyError' = TRUE
    /\ gateSetBy' = ErrorClass(e)
    /\ input' = <<>>

\* mutant: no finally block, the pending flag stays set after a failure
Reject_NoFinally(i, e) ==
    LET own == inflight[i]
    IN  /\ ~crashed
        /\ Caught(own, e)
        /\ isLoading' = isLoading
        /\ inflight' = Remove(inflight, i)
        /\ resolved' = resolved + 1
        /\ event' = Ev("settle", "threw", own, <<>>, e)
        /\ UNCHANGED <<API_KEY, crashed, packingList, calls, accepted>>

\* the call of invocation i throws e: the catch block, then finally
Reject(i, e) ==
    LET own == inflight[i]
    IN  /\ ~crashed
        /\ Caught(own, e)
        /\ isLoading' = FALSE
        /\ inflight' = Remove(inflight, i)
        /\ resolved' = resolved + 1
        /\ event' = Ev("settle", "threw", own, <<>>, e)
        /\ UNCHANGED <<API_KEY, crashed, packingList, calls, accepted>>

Type == \E v \in InputTexts : onChange(v)

Returns == \E i \in 1..Len(inflight) : \E r \in ResponseTexts : Fulfil(i, r)

Throws == \E i \in 1..Len(inflight) : \E e \in ThrownValues : Reject(i, e)

Next == Type \/ handleSubmit \/ Returns \/ Throws

Spec == Init /\ [][Next]_vars

\* the promise of generateContent is settled at last: the call returns or
\* throws
Settles == Returns \/ Throws

SpecLive == Init /\ [][Next]_vars /\ WF_vars(Settles)

\* mutant: the gate does not disable the input control
InputDisabled_LoadingOnly == isLoading

\* disabled={isLoading || apiKeyError} of the input control
InputDisabled == isLoading \/ apiKeyError

\* typing into the input control: a disabled control takes no text
TypeUI == ~InputDisabled /\ Type

NextUI == TypeUI \/ handleSubmit \/ Returns \/ Throws

\* the events come through the controls of the page only
SpecUI == Init /\ [][NextUI]_vars

----------------------------------------------------------------------------
(* Properties *)

\* the step handled a submit event
SubmitStep == event'.kind = "submit"
\* the step handled a submit event and the handler went on to generate
AcceptedStep == event'.kind = "submit" /\ event'.outcome # "ignored"
\* the step resumed an invocation whose call returned a text
ReturnedStep == event'.kind = "settle" /\ event'.outcome = "returned"
\* the step resumed an invocation whose call threw
ThrewStep == event'.kind = "settle" /\ event'.outcome = "threw"

\* the text the last call returned parses once cleaned
ParsedOk(r) == JSONparse(CleanText(r)).ok

\* C1: at most one generation request is in flight, the pending flag is set
\* exactly while one is, and a submit event that arrives while the flag is set
\* issues no call, appends no message and leaves the request pending.
C1_OneInFlight ==
    /\ [](Len(inflight) <= 1 /\ (isLoading <=> Len(inflight) = 1))
    /\ [][(isLoading /\ SubmitStep) =>
            /\ calls' = calls
            /\ messages' = messages
            /\ inflight' = inflight
            /\ isLoading']_vars

C1_Witness ==
    /\ isLoading
    /\ event.kind = "submit" /\ event.outcome = "ignored"
    /\ Trim(input) # <<>>
    /\ calls = 1

\* C2: right after an accepted submission has resolved (the call returned a
\* text that parsed or did not, the call threw, or the credential was
\* missing) the input field is empty and the pending flag is false.
C2_CleanupAfterOutcome ==
    (event.kind = "settle" \/ event.outcome = "noKey") =>
        (input = <<>> /\ isLoading = FALSE)

C2_Witness ==
    /\ event.kind = "settle" /\ event.outcome = "returned"
    /\ ~ParsedOk(event.response)
    /\ event.input # <<>>
    /\ input = <<>> /\ ~isLoading

\* C3: a failed generation (the call threw, the returned text did not parse,
\* or the credential was missing) leaves the stored packing list as it was.
C3_FailureKeepsList ==
    [][(\/ ThrewStep
        \/ ReturnedStep /\ ~ParsedOk(event'.response)
        \/ event'.outcome = "noKey") => packingList' = packingList]_vars

C3_Witness ==
    /\ event.kind = "settle" /\ event.outcome = "returned"
    /\ ~ParsedOk(event.response)
    /\ packingList # JSNull

\* C4: when the call returns a text that does not parse, the user message
\* with the raw submitted text and then the fixed invalid-response-format
\* message are appended, and the gate is false afterwards.
C4_ParseFailure ==
    [][(ReturnedStep /\ ~ParsedOk(event'.response)) =>
            /\ Len(inflight) = 1
            /\ messages' = messages \o <<User(inflight[1]),
                                         Assistant(MSG_INVALID_FORMAT)>>
            /\ apiKeyError' = FALSE]_vars

C4_Witness ==
    /\ event.kind = "settle" /\ event.outcome = "returned"
    /\ event.response = ProseText
    /\ messages[Len(messages)] = Assistant(MSG_INVALID_FORMAT)
    /\ messages[Len(messages) - 1] = User(<<SP, "trip", SP>>)
    /\ ~apiKeyError

\* C5 as claimed: once a call was rejected with an authentication-class
\* error, a later accepted submission takes the configuration-error path
\* (user message, fixed configuration-error message) and issues no call.
C5_GateShortCircuits ==
    [][(gateSetBy = "auth" /\ AcceptedStep) =>
            /\ calls' = calls
            /\ messages' = AppendPair(messages, input, MSG_NO_KEY)]_vars

\* C5 amended: a call rejected with an authentication-class error sets the
\* gate and empties the input, so the next submit event is ignored; the
\* submit handler does not read the gate: once text is in the field again, a
\* submission with the credential configured clears the gate and issues a new
\* call without appending a message, and the configuration-error path is
\* taken exactly when the credential is missing.
C5_GateNotConsulted ==
    /\ [](gateSetBy = "auth" => (apiKeyError /\ API_KEY))
    /\ []((event.kind = "settle" /\ event.outcome = "threw"
            /\ ErrorClass(event.error) = "auth")
            => (gateSetBy = "auth" /\ input = <<>>))
    /\ [][(gateSetBy = "auth" /\ SubmitStep /\ Trim(input) = <<>>) =>
            UNCHANGED <<messages, calls, apiKeyError, isLoading>>]_vars
    /\ [][(gateSetBy = "auth" /\ AcceptedStep) =>
            /\ calls' = calls + 1
            /\ apiKeyError' = FALSE
            /\ isLoading'
            /\ messages' = messages]_vars
    /\ [][AcceptedStep =>
            ((messages' = AppendPair(messages, input, MSG_NO_KEY)
                /\ calls' = calls) <=> ~API_KEY)]_vars

C5_Witness ==
    /\ event.kind = "submit" /\ event.outcome = "issued"
    /\ Len(messages) = 2
    /\ messages[2] = Assistant(MSG_INVALID_KEY)
    /\ calls = 2
    /\ ~apiKeyError

\* C6: without a credential, submitting a text that is not blank appends
\* exactly the user message with that text and the fixed configuration-error
\* message, and no call has been issued.
C6_MissingCredential ==
    [][(~API_KEY /\ SubmitStep /\ Trim(input) # <<>>) =>
            /\ messages' = messages \o <<User(input), Assistant(MSG_NO_KEY)>>
            /\ calls' = 0]_vars

C6_Witness ==
    /\ ~API_KEY
    /\ event.kind = "submit" /\ event.outcome = "noKey"
    /\ messages = <<User(<<SP, "trip", SP>>), Assistant(MSG_NO_KEY)>>
    /\ calls = 0

Category(name, items) ==
    JSObj(<<"name", "items">>,
          <<JSStr(name), JSArr([i \in 1..Len(items) |-> JSStr(items[i])])>>)

\* the value of {"categories":[{"name":"Clothing","items":["Shirt","Pants"]}]}
L1Value == JSObj(<<"categories">>,
                 <<JSArr(<<Category("Clothing", <<"Shirt", "Pants">>)>>)>>)

\* the value L2Text is the JSON text of
L2Value == JSObj(<<"categories">>,
                 <<JSArr(<<Category("Toiletries", <<"Soap">>),
                           Category("Clothing", <<"Pants", "Shirt">>)>>)>>)

\* C7: when the call returns the JSON text of a packing list (bare, or in a
\* code fence), the stored list becomes exactly that list, categories and
\* items in the order of the text, whatever was stored before, and exactly
\* the user message with the submitted text and the fixed success message
\* are appended.
C7_SuccessStoresList ==
    [][(ReturnedStep /\ event'.response \in {L1Text, Fence(L2Text)}) =>
            /\ packingList' =
                  (IF event'.response = L1Text THEN L1Value ELSE L2Value)
            /\ Len(inflight) = 1
            /\ messages' = messages \o <<User(inflight[1]),
                                         Assistant(MSG_SUCCESS)>>]_vars

C7_Witness ==
    /\ event.kind = "settle" /\ event.response = Fence(L2Text)
    /\ packingList = L2Value
    /\ Len(messages) = 4
    /\ messages[2] = Assistant(MSG_SUCCESS)
    /\ messages[3] = User(<<SP, "trip", SP>>)
    /\ messages[4] = Assistant(MSG_SUCCESS)

\* C8: a submit event with an empty or white-space-only input changes
\* neither the transcript, the stored list, the pending flag, the gate nor
\* the number of calls, in whatever state it arrives.
C8_BlankSubmitNoOp ==
    [][(SubmitStep /\ Trim(input) = <<>>) =>
            UNCHANGED <<messages, packingList, isLoading, apiKeyError,
                        calls, inflight, input>>]_vars

C8_Witness ==
    /\ event.kind = "submit" /\ event.outcome = "ignored"
    /\ input = <<NL, SP>>
    /\ ~isLoading
    /\ calls = 1

\* the assistant messages of the catch block
ErrorMessages == {MSG_INVALID_KEY, MSG_RATE_LIMIT, MSG_GENERIC, MSG_UNEXPECTED}

\* C10: whenever the call fails, whatever was thrown, the user message with
\* the raw submitted text and one assistant error message are appended, and
\* the gate is true afterwards.
C10_CallFailure ==
    [][ThrewStep =>
            /\ Len(inflight) = 1
            /\ \E m \in ErrorMessages :
                  messages' = messages \o <<User(inflight[1]), Assistant(m)>>
            /\ apiKeyError']_vars

C10_Witness ==
    /\ event.kind = "settle" /\ event.outcome = "threw"
    /\ ErrorClass(event.error) = "rateLimit"
    /\ Len(messages) = 2
    /\ messages[1] = User(<<SP, "trip", SP>>)
    /\ messages[2] = Assistant(MSG_RATE_LIMIT)
    /\ apiKeyError

----------------------------------------------------------------------------
(* Code fences: one submission, the service returning any short text, bare *)
(* or wrapped in a json code fence                                         *)

FenceChars == {TICK, NL, SP, "json", "null", "[", "]"}

Payloads == UNION {[1..n -> FenceChars] : n \in 0..MaxTextLen}

SubmitOnce == messages = <<>> /\ handleSubmit

ReturnsPayload ==
    \E i \in 1..Len(inflight) : \E p \in Payloads : \E wrapped \in BOOLEAN :
        Fulfil(i, IF wrapped THEN Fence(p) ELSE p)

NextFence == Type \/ SubmitOnce \/ ReturnsPayload

SpecFence == Init /\ [][NextFence]_vars

FenceOpen == <<TICK, TICK, TICK, "json", NL>>
FenceClose == <<NL, TICK, TICK, TICK>>

\* r is some payload between the opening and the closing fence
IsFenced(r) ==
    /\ Len(r) >= Len(FenceOpen) + Len(FenceClose)
    /\ SubSeq(r, 1, Len(FenceOpen)) = FenceOpen
    /\ SubSeq(r, Len(r) - Len(FenceClose) + 1, Len(r)) = FenceClose

Inner(r) == SubSeq(r, Len(FenceOpen) + 1, Len(r) - Len(FenceClose))

NoTick(r) == \A i \in 1..Len(r) : r[i] # TICK

\* the call of the only submission of the run has returned
ReturnedFirst ==
    /\ event.kind = "settle" /\ event.outcome = "returned"
    /\ Len(messages) = 2

\* the transcript and the stored list after the first submission's call
\* returned the text p
OutcomeOf(p) ==
    IF ParsedOk(p)
    THEN [reply |-> MSG_SUCCESS, list |-> JSONparse(CleanText(p)).v]
    ELSE [reply |-> MSG_INVALID_FORMAT, list |-> JSNull]

\* a fenced response has the outcome of its payload returned bare
SameAsBare ==
    (ReturnedFirst /\ IsFenced(event.response)) =>
        /\ messages[2] = Assistant(OutcomeOf(Inner(event.response)).reply)
        /\ packingList = OutcomeOf(Inner(event.response)).list

\* C9 as claimed: a fenced response has the outcome of its payload returned
\* bare, cleaning a response twice gives what cleaning it once gives, and
\* cleaning a response without a fence returns it unchanged.
C9_FenceLossless ==
    /\ SameAsBare
    /\ ReturnedFirst =>
          CleanText(CleanText(event.response)) = CleanText(event.response)
    /\ (ReturnedFirst /\ NoTick(event.response)) =>
          CleanText(event.response) = event.response

\* C9 amended: a fenced response has the outcome of its payload returned
\* bare; for a payload without a backtick, cleaning it (bare or fenced)
\* gives the payload without its leading and trailing white space, and
\* cleaning that again changes nothing.
C9_FenceTrimmed ==
    /\ SameAsBare
    /\ (ReturnedFirst /\ NoTick(event.response)) =>
          /\ CleanText(event.response) = Trim(event.response)
          /\ CleanText(CleanText(event.response)) = CleanText(event.response)
    /\ (ReturnedFirst /\ IsFenced(event.response)
            /\ NoTick(Inner(event.response))) =>
          /\ CleanText(event.response) = Trim(Inner(event.response))
          /\ CleanText(CleanText(event.response)) = CleanText(event.response)

C9_Witness ==
    /\ ReturnedFirst
    /\ event.response = Fence(<<"[", "null", "]">>)
    /\ messages[2] = Assistant(MSG_SUCCESS)
    /\ packingList = JSArr(<<JSNull>>)

----------------------------------------------------------------------------
(* Failure classes, the gate, the transcript *)

\* the assistant message the transcript ends with
LastReply == messages[Len(messages)].content

\* C11 as claimed: after a call failure the assistant message is the
\* invalid-credential message for an authentication-class error, the
\* rate-limit message for a rate-limit-class error and the generic
\* retry-suggestion message for anything else thrown.
C11_ThreeMessages ==
    (event.kind = "settle" /\ event.outcome = "threw") =>
        LastReply =
            IF event.error.isError /\ "API_KEY_INVALID" \in event.error.includes
            THEN MSG_INVALID_KEY
            ELSE IF event.error.isError
                    /\ "RATE_LIMIT_EXCEEDED" \in event.error.includes
            THEN MSG_RATE_LIMIT
            ELSE MSG_GENERIC

\* C11 amended: as claimed for every thrown Error (an authentication-class
\* message wins over a rate-limit-class one); a thrown value that is not an
\* Error gives the fixed unexpected-error message.
C11_FourMessages ==
    (event.kind = "settle" /\ event.outcome = "threw") =>
        LastReply =
            IF ~event.error.isError THEN MSG_UNEXPECTED
            ELSE IF "API_KEY_INVALID" \in event.error.includes
            THEN MSG_INVALID_KEY
            ELSE IF "RATE_LIMIT_EXCEEDED" \in event.error.includes
            THEN MSG_RATE_LIMIT
            ELSE MSG_GENERIC

C11_Witness ==
    /\ event.kind = "settle" /\ event.outcome = "threw"
    /\ event.error = [isError |-> TRUE, includes |-> Markers]
    /\ LastReply = MSG_INVALID_KEY

\* C12: in a run without a credential the gate is set and no call has been
\* issued, in every reachable state.
C12_MissingKeyPermanent == ~API_KEY => (apiKeyError /\ calls = 0)

C12_Witness ==
    /\ ~API_KEY
    /\ Len(messages) = 4
    /\ messages[4] = Assistant(MSG_NO_KEY)
    /\ Trim(input) # <<>>
    /\ apiKeyError /\ calls = 0

\* C13: every step leaves the transcript it found as a prefix of the
\* transcript it leaves.
C13_AppendOnly ==
    [][/\ Len(messages') >= Len(messages)
       /\ SubSeq(messages', 1, Len(messages)) = messages]_vars

C13_Witness ==
    /\ Len(messages) = 4
    /\ messages[2] = Assistant(MSG_INVALID_FORMAT)
    /\ messages[4] = Assistant(MSG_RATE_LIMIT)

\* C14 as claimed: the number of calls issued is the number of accepted
\* submissions, in every reachable state.
C14_CallPerSubmission == calls = accepted

\* C14 amended: with a credential the number of calls issued is the number
\* of accepted submissions, without one it is zero; only an accepted
\* submission issues a call, and it issues one.
C14_CallPerSubmissionWithKey ==
    /\ [](calls = IF API_KEY THEN accepted ELSE 0)
    /\ [][calls' # calls =>
            (AcceptedStep /\ Trim(input) # <<>> /\ ~isLoading
                /\ calls' = calls + 1)]_vars
    /\ [][accepted' # accepted =>
            (AcceptedStep /\ accepted' = accepted + 1)]_vars

C14_Witness ==
    /\ API_KEY
    /\ calls = 2 /\ accepted = 2
    /\ isLoading
    /\ event.kind = "submit" /\ event.outcome = "ignored"

\* the transcript has grown by one user message and one assistant message
\* since it had n messages
OnePairSince(n) ==
    /\ Len(messages) = n + 2
    /\ messages[n + 1].role = "user"
    /\ messages[n + 2].role = "assistant"

\* C15: provided the call returns or throws at last, every state with a
\* pending request is followed by an idle state in which the transcript has
\* grown by exactly the pair of that submission; the step that ends the
\* pending state appends the submitted text and one assistant message.
C15_RunsToCompletion ==
    /\ \A n \in 0..(2 * MaxSubmissions) :
          (isLoading /\ Len(messages) = n) ~> (~isLoading /\ OnePairSince(n))
    /\ [][(isLoading /\ ~isLoading') =>
            /\ Len(inflight) = 1 /\ inflight' = <<>>
            /\ \E m \in ErrorMessages \cup {MSG_SUCCESS, MSG_INVALID_FORMAT} :
                  messages' = messages \o <<User(inflight[1]), Assistant(m)>>]_vars

C15_Witness ==
    /\ ~isLoading
    /\ event.kind = "settle" /\ event.outcome = "threw"
    /\ ErrorClass(event.error) = "other"
    /\ Len(messages) = 4
    /\ messages[4] = Assistant(MSG_GENERIC)
    /\ resolved = 2

\* C16: while a request is pending the gate is false, and the only step that
\* clears a set gate is an accepted submission with the credential
\* configured, which clears it in the step that issues the call.
C16_GateResetBeforeCall ==
    /\ [](isLoading => ~apiKeyError)
    /\ [][(AcceptedStep /\ API_KEY) => (~apiKeyError' /\ calls' = calls + 1)]_vars
    /\ [][(apiKeyError /\ ~apiKeyError') =>
            (AcceptedStep /\ API_KEY /\ isLoading' /\ calls' = calls + 1)]_vars

C16_Witness ==
    /\ isLoading /\ ~apiKeyError
    /\ event.kind = "submit" /\ event.outcome = "issued"
    /\ Len(messages) = 2
    /\ messages[2] = Assistant(MSG_RATE_LIMIT)

\* the gate is set and a call failure set it
GateSetByFailure ==
    apiKeyError /\ gateSetBy \in {"auth", "rateLimit", "other", "nonError"}

\* C17: with text typed only into an enabled input control, once a call
\* failure has set the gate the input is empty and stays empty, no
\* submission is accepted, no call is issued and the gate stays set.
C17_GateAbsorbing ==
    /\ [](GateSetByFailure => (input = <<>> /\ ~isLoading))
    /\ [][GateSetByFailure =>
            /\ GateSetByFailure'
            /\ input' = <<>>
            /\ accepted' = accepted
            /\ calls' = calls
            /\ messages' = messages]_vars

C17_Witness ==
    /\ GateSetByFailure /\ gateSetBy = "rateLimit"
    /\ event.kind = "submit" /\ event.outcome = "ignored"
    /\ packingList = L1Value
    /\ calls = 2

\* the transcript is a sequence of (user message, assistant message) pairs
PairedTranscript ==
    /\ Len(messages) % 2 = 0
    /\ \A i \in 1..Len(messages) :
          messages[i].role = (IF i % 2 = 1 THEN "user" ELSE "assistant")

\* C18: the transcript has even length, the message at each odd position
\* has role user and the message after it role assistant, and the number
\* of pairs is the number of accepted submissions that have resolved.
C18_TranscriptPairs ==
    /\ PairedTranscript
    /\ Len(messages) = 2 * resolved
    /\ resolved <= accepted

C18_Witness ==
    /\ Len(messages) = 4
    /\ resolved = 2 /\ accepted = 2
    /\ messages[2] = Assistant(MSG_INVALID_FORMAT)
    /\ messages[4] = Assistant(MSG_GENERIC)

\* ---------------------------------------------------------------------
\* The shape of the stored list
\* ---------------------------------------------------------------------

\* the value has the shape of one entry of PackingList.categories
IsCategory(v) ==
    /\ v.t = "object"
    /\ Prop(v, "name").t = "string"
    /\ Prop(v, "items").t = "array"
    /\ \A i \in 1..Len(Prop(v, "items").c) : Prop(v, "items").c[i].t = "string"

\* the value has the shape of the interface PackingList
IsPackingList(v) ==
    /\ v.t = "object"
    /\ Prop(v, "categories").t = "array"
    /\ \A i \in 1..Len(Prop(v, "categories").c) :
          IsCategory(Prop(v, "categories").c[i])

\* C19: the stored packing list is either absent or a value of the
\* PackingList shape; a response that is valid JSON of another shape is
\* never stored.
C19_StoredListHasShape ==
    packingList = JSNull \/ IsPackingList(packingList)

====
